---- MODULE Spec2Model ----
(***************************************************************************)
(* PowerFlowGame: the game engine's state machine (src/engine/engine.py),  *)
(* driven by GameManager.handle_event (src/app/game_manager.py), with the  *)
(* market solver as a black box (src/engine/market_coupling.py).           *)
(*                                                                         *)
(* Money, prices and volumes are floats in the program; the model uses     *)
(* integers, on which the program's arithmetic is exact.                   *)
(***************************************************************************)
EXTENDS Integers, Sequences, FiniteSets, TLC

VARIABLES
    gs,       \* the GameState held by the caller of the engine
    repo,     \* the GameState stored in the game repository
    pending,  \* new_phase_events of handle_event: the ConcludePhase to re-feed
    msg,      \* the message handled by the last engine call
    out,      \* the list of messages returned by the last engine call
    err,      \* the exception raised by the last engine call, or "none"
    solver,   \* status reported by the solver in the last engine call
    delivered, \* the messages passed to front_end_handler for this player event
    threads,  \* concurrent calls of handle_player_event: position, event, state read
    ldc       \* an LdcRepo under test: the receiver, the last call and its result

vars == <<gs, repo, pending, msg, out, err, solver, delivered, threads, ldc>>

----------------------------------------------------------------------------
(* Bounds *)

NPlayers == 2
NNpcAssets == 1
\* Funds of a player who cannot afford an npc generator
PoorFunds == 200

(* Program constants *)

InitialFunds == 1000
MinBidPrice == -100
MaxBidPrice == 100
NPC == -1
IceCreamPowerExpected == 50
NpcPowerExpected == 60
\* power_std = 0.5, kept as twice its value so that 5 * power_std is an integer
NpcPowerStdX2 == 1
ReliabilityCoefficient == 5

\* np.random.uniform(initial_funds / 20, initial_funds / 2): the lower end
NpcBidVals == {InitialFunds \div 20}

(* Values the solver's tables are drawn from *)
DispatchVals == {50}
PriceVals == {50}
FlowVals == {10}

----------------------------------------------------------------------------
(* Types *)

CONSTRUCTION == "CONSTRUCTION"
SNEAKY_TRICKS == "SNEAKY_TRICKS"
DA_AUCTION == "DA_AUCTION"

Phase == {CONSTRUCTION, SNEAKY_TRICKS, DA_AUCTION}

GENERATOR == "GENERATOR"
LOAD == "LOAD"

PlayerIds == 1..NPlayers
NInitAssets == NPlayers + NNpcAssets
AssetIds == 1..NInitAssets
NpcAssetIds == (NPlayers + 1)..NInitAssets
BusIds == 1..NPlayers

Abs(x) == IF x < 0 THEN -x ELSE x

RECURSIVE SumOver(_, _)
SumOver(S, f) ==
    IF S = {} THEN 0
    ELSE LET x == CHOOSE y \in S : TRUE IN f[x] + SumOver(S \ {x}, f)

\* Phase.get_next: the cyclic successor
get_next(p) ==
    CASE p = CONSTRUCTION -> SNEAKY_TRICKS
      [] p = SNEAKY_TRICKS -> DA_AUCTION
      [] p = DA_AUCTION -> CONSTRUCTION

\* market_coupling_result = None
NoResult == [is_none |-> TRUE, bus_prices |-> <<>>, transmission_flows |-> <<>>, assets_dispatch |-> <<>>]

----------------------------------------------------------------------------
(* create_new_game *)

\* _create_player_repo: ids 1..n, initial funds, no player has a turn yet
\* Mutant: every player of a new game is having a turn
Mut_players_start_having_turn ==
    [p \in PlayerIds |-> [money |-> InitialFunds, is_having_turn |-> TRUE]]

CreatePlayerRepo ==
    [p \in PlayerIds |-> [money |-> InitialFunds, is_having_turn |-> FALSE]]

IceCreamAsset(i) ==
    [owner_player |-> i, asset_type |-> LOAD, bus |-> i,
     power_expected |-> IceCreamPowerExpected, power_std_x2 |-> 0,
     is_for_sale |-> FALSE, minimum_acquisition_price |-> 0,
     fixed_operating_cost |-> InitialFunds \div 20, marginal_cost |-> 0,
     bid_price |-> InitialFunds \div 2, is_ice_cream |-> TRUE, is_active |-> TRUE]

NpcGenerator(b, bid) ==
    [owner_player |-> NPC, asset_type |-> GENERATOR, bus |-> b,
     power_expected |-> NpcPowerExpected, power_std_x2 |-> NpcPowerStdX2,
     is_for_sale |-> TRUE, minimum_acquisition_price |-> InitialFunds \div 4,
     fixed_operating_cost |-> InitialFunds \div 20, marginal_cost |-> InitialFunds \div 20,
     bid_price |-> bid, is_ice_cream |-> FALSE, is_active |-> TRUE]

\* BusId(np.random.choice(bus_repo.bus_ids)): the first bus
NpcBusChoices == {1}

\* _create_asset_repo: one ice cream load per player, the rest npc generators
\* at a random bus with a random bid price
CreateAssetRepos ==
    { [a \in AssetIds |-> IF a <= NPlayers THEN IceCreamAsset(a)
                                          ELSE NpcGenerator(b[a], bid[a])] :
        b \in [NpcAssetIds -> NpcBusChoices], bid \in [NpcAssetIds -> NpcBidVals] }

\* make_spiderweb with n_buses = n_buses_per_layer = n_players (one layer):
\* for each position i the clockwise neighbour, and for i = 0 the last bus
RECURSIVE Spiderweb(_)
Spiderweb(i) ==
    IF i >= NPlayers THEN <<>>
    ELSE (IF i + 1 < NPlayers THEN << <<i + 1, i + 2>> >> ELSE <<>>)
         \o (IF i = 0 /\ NPlayers - 1 < NPlayers /\ NPlayers > 1
              THEN << <<1, NPlayers>> >> ELSE <<>>)
         \o Spiderweb(i + 1)

LineIds == 1..Len(Spiderweb(0))

\* _create_transmission_repo: the npc owns all initial lines
CreateTransmissionRepo ==
    [l \in LineIds |-> [owner_player |-> NPC, bus1 |-> Spiderweb(0)[l][1],
                        bus2 |-> Spiderweb(0)[l][2], is_for_sale |-> TRUE,
                        is_active |-> TRUE]]

CreateBusRepo == [b \in BusIds |-> [player_id |-> b]]

GameSettings == [min_bid_price |-> MinBidPrice, max_bid_price |-> MaxBidPrice,
                 initial_funds |-> InitialFunds, n_players |-> NPlayers]

create_new_game ==
    { [game_settings |-> GameSettings, phase |-> CONSTRUCTION,
       players |-> CreatePlayerRepo, buses |-> CreateBusRepo, assets |-> as,
       transmission |-> CreateTransmissionRepo,
       market_coupling_result |-> NoResult] : as \in CreateAssetRepos }

----------------------------------------------------------------------------
(* Messages *)

EndTurn(p) == [kind |-> "EndTurn", player_id |-> p]
BuyAssetRequest(p, a) == [kind |-> "BuyAssetRequest", player_id |-> p, asset_id |-> a]
UpdateBidRequest(p, a, b) ==
    [kind |-> "UpdateBidRequest", player_id |-> p, asset_id |-> a, bid_price |-> b]
ConcludePhase(ph) == [kind |-> "ConcludePhase", phase |-> ph]
DummyMessage(p) == [kind |-> "DummyMessage", player_id |-> p]
NoMessage == [kind |-> "none"]

GameUpdate(p, state, text) ==
    [kind |-> "GameUpdate", player_id |-> p, game_state |-> state, message |-> text]
BuyAssetResponse(p, state, ok, text, a) ==
    [kind |-> "BuyAssetResponse", player_id |-> p, game_state |-> state,
     success |-> ok, message |-> text, asset_id |-> a]
UpdateBidResponse(p, state, ok, text, a) ==
    [kind |-> "UpdateBidResponse", player_id |-> p, game_state |-> state,
     success |-> ok, message |-> text, asset_id |-> a]

\* What an engine call gives back: the returned pair, or the exception raised
Returned(state, msgs) == [state |-> state, msgs |-> msgs, err |-> "none"]
Raised(state, e) == [state |-> state, msgs |-> <<>>, err |-> e]

----------------------------------------------------------------------------
(* Repositories *)

\* PlayerRepo.are_all_players_finished: nobody is currently playing
are_all_players_finished(players) ==
    \A p \in DOMAIN players : ~players[p].is_having_turn

\* PlayerRepo.add_money: a new repository, the given player's money adjusted
add_money(players, player_id, amount) ==
    [players EXCEPT ![player_id].money = @ + amount]

subtract_money(players, player_id, amount) ==
    [players EXCEPT ![player_id].money = @ - amount]

end_turn(players, player_id) ==
    [players EXCEPT ![player_id].is_having_turn = FALSE]

start_all_turns(players) ==
    [p \in DOMAIN players |-> [players[p] EXCEPT !.is_having_turn = TRUE]]

\* get_all_for_player(player_id, only_active=True), in id order
ActiveFor(repo_, player_id) ==
    {x \in DOMAIN repo_ : repo_[x].owner_player = player_id /\ repo_[x].is_active}

change_owner(assets, asset_id, new_owner) ==
    [assets EXCEPT ![asset_id].owner_player = new_owner, ![asset_id].is_for_sale = FALSE]

update_bid_price(assets, asset_id, bid_price) ==
    [assets EXCEPT ![asset_id].bid_price = bid_price]

get_cashflow_sign(assets, asset_id) ==
    IF assets[asset_id].asset_type = GENERATOR THEN 1 ELSE -1

----------------------------------------------------------------------------
(* Settlement: Engine.update_game_state_with_market_coupling_result *)

\* The result as attached to the state
MarketCouplingResult(bus_prices, transmission_flows, assets_dispatch) ==
    [is_none |-> FALSE, bus_prices |-> bus_prices,
     transmission_flows |-> transmission_flows, assets_dispatch |-> assets_dispatch]

\* The body of the loop over one player: delta_money
DeltaMoney(game_state, mcr, player_id) ==
    LET assets == game_state.assets
        lines == game_state.transmission
        operating_cost ==
            SumOver(ActiveFor(assets, player_id),
                    [a \in DOMAIN assets |->
                        Abs(mcr.assets_dispatch[a]) * assets[a].marginal_cost
                        + assets[a].fixed_operating_cost])
        market_cashflow ==
            SumOver(ActiveFor(assets, player_id),
                    [a \in DOMAIN assets |-> mcr.assets_dispatch[a] * assets[a].bid_price])
        congestion_payments ==
            SumOver(ActiveFor(lines, player_id),
                    [l \in DOMAIN lines |->
                        mcr.transmission_flows[l]
                        * (mcr.bus_prices[lines[l].bus1] - mcr.bus_prices[lines[l].bus2])])
    IN market_cashflow + congestion_payments - operating_cost

\* A dictionary lookup of the loop raises KeyError
SettlementRaises(game_state, mcr) ==
    \E p \in DOMAIN game_state.players :
        \/ \E a \in ActiveFor(game_state.assets, p) : a \notin DOMAIN mcr.assets_dispatch
        \/ \E l \in ActiveFor(game_state.transmission, p) :
              \/ l \notin DOMAIN mcr.transmission_flows
              \/ game_state.transmission[l].bus1 \notin DOMAIN mcr.bus_prices
              \/ game_state.transmission[l].bus2 \notin DOMAIN mcr.bus_prices

\* for player in game_state.players: every pass replaces the players of the
\* new state by game_state.players.add_money(...), the players of the INPUT
\* state with this one player's money adjusted
RECURSIVE SettlementLoop(_, _, _, _)
SettlementLoop(game_state, mcr, new_game_state, i) ==
    IF i > Cardinality(DOMAIN game_state.players) THEN new_game_state
    ELSE SettlementLoop(game_state, mcr,
            [new_game_state EXCEPT
                !.players = add_money(game_state.players, i,
                                      DeltaMoney(game_state, mcr, i))],
            i + 1)

\* Mutant: a result already attached is kept
Mut_settlement_keeps_earlier_result(game_state, mcr) ==
    IF SettlementRaises(game_state, mcr) THEN Raised(game_state, "KeyError")
    ELSE Returned([SettlementLoop(game_state, mcr, game_state, 1)
                      EXCEPT !.market_coupling_result =
                                 IF game_state.market_coupling_result.is_none
                                 THEN mcr ELSE @], <<>>)

update_game_state_with_market_coupling_result(game_state, mcr) ==
    IF SettlementRaises(game_state, mcr) THEN Raised(game_state, "KeyError")
    ELSE Returned([SettlementLoop(game_state, mcr, game_state, 1)
                      EXCEPT !.market_coupling_result = mcr], <<>>)

----------------------------------------------------------------------------
(* The solver: MarketCouplingCalculator.run *)

\* MarketCouplingCalculator.create_pypsa_network: the components added to
\* the network, by game id. Every bus, every line of the transmission
\* repository, every GENERATOR and every LOAD of the asset repository is
\* added (a load as a generator with negative power).
create_pypsa_network(game_state) ==
    [buses |-> DOMAIN game_state.buses,
     lines |-> DOMAIN game_state.transmission,
     generators |->
         {a \in DOMAIN game_state.assets : game_state.assets[a].asset_type = GENERATOR}
         \cup {a \in DOMAIN game_state.assets : game_state.assets[a].asset_type = LOAD}]

\* optimize_network drops the status network.optimize returns. With the
\* status "ok" the tables hold one column per bus, line and asset of the
\* network; otherwise the solver may have assigned no solution (tables
\* without columns) or a solution that is not optimal.
SolverTables(game_state) ==
    LET network == create_pypsa_network(game_state)
    IN { MarketCouplingResult(bp, tf, ad) :
            bp \in [network.buses -> PriceVals],
            tf \in [network.lines -> FlowVals],
            ad \in [network.generators -> DispatchVals] }

EmptyTables == MarketCouplingResult(<<>>, <<>>, <<>>)

SolverOutcomes(game_state) ==
    { [status |-> "ok", result |-> t] : t \in SolverTables(game_state) }
    \cup { [status |-> "warning", result |-> t] :
                t \in SolverTables(game_state) \cup {EmptyTables} }

----------------------------------------------------------------------------
(* Engine *)

\* Mutant: the first player id is left out of the broadcast
Mut_make_phase_update_messages(game_state) ==
    [i \in 1..(Cardinality(DOMAIN game_state.players) - 1) |->
        GameUpdate(i + 1, game_state, <<"Phase changed to", game_state.phase>>)]

\* _make_phase_update_messages: one GameUpdate per player id, in id order
\* Mutant: a concluded phase asks for another conclusion
Mut_phase_update_concludes_again(game_state) ==
    <<ConcludePhase(game_state.phase)>>

make_phase_update_messages(game_state) ==
    [i \in 1..Cardinality(DOMAIN game_state.players) |->
        GameUpdate(i, game_state, <<"Phase changed to", game_state.phase>>)]

\* Mutant: the phase is advanced twice
Mut_increment_phase_and_start_turns(game_state, m, gs_) ==
    [gs_ EXCEPT !.phase = get_next(get_next(m.phase)),
                !.players = start_all_turns(game_state.players)]

\* increment_phase_and_start_turns(gs): the successor of the phase named in
\* the MESSAGE, and the players of the handler's INPUT state with all turns
\* started (the closure reads game_state.players, not gs.players)
increment_phase_and_start_turns(game_state, m, gs_) ==
    [gs_ EXCEPT !.phase = get_next(m.phase),
                !.players = start_all_turns(game_state.players)]

\* The balance messages appended after a day-ahead auction
BalanceMessages(game_state, new_game_state) ==
    [i \in 1..Cardinality(DOMAIN new_game_state.players) |->
        GameUpdate(i, new_game_state,
                   <<"Day-ahead market cleared", game_state.players[i].money,
                     new_game_state.players[i].money>>)]

\* handle_new_phase_message; sol is what the solver gives in this call
handle_new_phase_message(game_state, m, sol) ==
    IF m.phase = CONSTRUCTION \/ m.phase = SNEAKY_TRICKS THEN
        LET new_game_state == increment_phase_and_start_turns(game_state, m, game_state)
        IN Returned(new_game_state, make_phase_update_messages(new_game_state))
    ELSE IF m.phase = DA_AUCTION THEN
        LET settled == update_game_state_with_market_coupling_result(game_state, sol.result)
            new_game_state == increment_phase_and_start_turns(game_state, m, settled.state)
        IN IF settled.err # "none" THEN Raised(game_state, settled.err)
           ELSE Returned(new_game_state,
                         make_phase_update_messages(new_game_state)
                         \o BalanceMessages(game_state, new_game_state))
    ELSE Raised(game_state, "NotImplementedError")

\* The affordability sum of handle_update_bid_message, doubled (power_std is
\* kept doubled): bid_price * sign * (power_expected + 5 * power_std)
SafeExpectedMarketCashflowX2(game_state, m) ==
    LET assets == game_state.assets
    IN SumOver(ActiveFor(assets, m.player_id),
               [a \in DOMAIN assets |->
                   (IF a # m.asset_id THEN assets[a].bid_price ELSE m.bid_price)
                   * get_cashflow_sign(assets, a)
                   * (2 * assets[a].power_expected
                      + ReliabilityCoefficient * assets[a].power_std_x2)])

\* Variants of handle_update_bid_message with one of its checks left out
UpdateBidVariant(game_state, m, check_owner, check_range, check_funds, price_used) ==
    LET failed(text) ==
            Returned(game_state,
                     <<UpdateBidResponse(m.player_id, game_state, FALSE, text, m.asset_id)>>)
    IN IF m.asset_id \notin DOMAIN game_state.assets THEN failed("Asset does not exist.")
       ELSE IF m.player_id \notin DOMAIN game_state.players
            THEN Raised(game_state, "KeyError")
       ELSE IF check_owner /\ m.player_id # game_state.assets[m.asset_id].owner_player
            THEN failed("cannot bid on asset as they do not own it.")
       ELSE IF check_range /\ ~(game_state.game_settings.min_bid_price <= m.bid_price
                                /\ m.bid_price <= game_state.game_settings.max_bid_price)
            THEN failed("Bid price is not within the allowed range")
       ELSE IF check_funds
               /\ 2 * game_state.players[m.player_id].money
                  - SafeExpectedMarketCashflowX2(game_state, [m EXCEPT !.bid_price = price_used])
                  < 0
            THEN failed("cannot afford the bid price")
       ELSE LET new_game_state ==
                    [game_state EXCEPT
                        !.assets = update_bid_price(game_state.assets, m.asset_id, m.bid_price)]
            IN Returned(new_game_state,
                        <<UpdateBidResponse(m.player_id, new_game_state, TRUE,
                                            "successfully updated bid", m.asset_id)>>)

\* Mutant: the bid price is not compared with the allowed range
Mut_update_bid_without_range_check(game_state, m) ==
    UpdateBidVariant(game_state, m, TRUE, FALSE, TRUE, m.bid_price)

\* Mutant: the sender is not compared with the asset's owner
Mut_update_bid_without_owner_check(game_state, m) ==
    UpdateBidVariant(game_state, m, FALSE, TRUE, TRUE, m.bid_price)

\* Mutant: the worst case is computed with the asset's current bid price
Mut_update_bid_checks_current_price(game_state, m) ==
    UpdateBidVariant(game_state, m, TRUE, TRUE, TRUE,
                     game_state.assets[m.asset_id].bid_price)

handle_update_bid_message(game_state, m) ==
    LET failed(text) ==
            Returned(game_state,
                     <<UpdateBidResponse(m.player_id, game_state, FALSE, text, m.asset_id)>>)
    IN IF m.asset_id \notin DOMAIN game_state.assets THEN failed("Asset does not exist.")
       ELSE IF m.player_id \notin DOMAIN game_state.players
            THEN Raised(game_state, "KeyError")
       ELSE IF m.player_id # game_state.assets[m.asset_id].owner_player
            THEN failed("cannot bid on asset as they do not own it.")
       ELSE IF ~(game_state.game_settings.min_bid_price <= m.bid_price
                 /\ m.bid_price <= game_state.game_settings.max_bid_price)
            THEN failed("Bid price is not within the allowed range")
       ELSE IF 2 * game_state.players[m.player_id].money
               - SafeExpectedMarketCashflowX2(game_state, m) < 0
            THEN failed("cannot afford the bid price")
       ELSE LET new_game_state ==
                    [game_state EXCEPT
                        !.assets = update_bid_price(game_state.assets, m.asset_id, m.bid_price)]
            IN Returned(new_game_state,
                        <<UpdateBidResponse(m.player_id, new_game_state, TRUE,
                                            "successfully updated bid", m.asset_id)>>)

\* Mutant: the asset changes hands without the buyer being debited
Mut_buy_without_debit(game_state, m) ==
    LET failed(text) ==
            Returned(game_state,
                     <<BuyAssetResponse(m.player_id, game_state, FALSE, text, m.asset_id)>>)
    IN IF m.player_id \notin DOMAIN game_state.players THEN Raised(game_state, "KeyError")
       ELSE IF m.asset_id \notin DOMAIN game_state.assets THEN failed("does not exist.")
       ELSE IF ~game_state.assets[m.asset_id].is_for_sale THEN failed("is not for sale.")
       ELSE IF game_state.players[m.player_id].money
               < game_state.assets[m.asset_id].minimum_acquisition_price
            THEN failed("cannot afford asset")
       ELSE LET new_game_state ==
                    [game_state EXCEPT
                        !.assets = change_owner(game_state.assets, m.asset_id, m.player_id)]
            IN Returned(new_game_state,
                        <<BuyAssetResponse(m.player_id, new_game_state, TRUE,
                                           "successfully bought asset", m.asset_id)>>)

\* Mutant: the buyer's money is not compared with the price
Mut_buy_without_funds_check(game_state, m) ==
    LET failed(text) ==
            Returned(game_state,
                     <<BuyAssetResponse(m.player_id, game_state, FALSE, text, m.asset_id)>>)
    IN IF m.player_id \notin DOMAIN game_state.players THEN Raised(game_state, "KeyError")
       ELSE IF m.asset_id \notin DOMAIN game_state.assets THEN failed("does not exist.")
       ELSE IF ~game_state.assets[m.asset_id].is_for_sale THEN failed("is not for sale.")
       ELSE LET new_players ==
                    subtract_money(game_state.players, m.player_id,
                                   game_state.assets[m.asset_id].minimum_acquisition_price)
                new_assets == change_owner(game_state.assets, m.asset_id, m.player_id)
                new_game_state ==
                    [game_state EXCEPT !.players = new_players, !.assets = new_assets]
            IN Returned(new_game_state,
                        <<BuyAssetResponse(m.player_id, new_game_state, TRUE,
                                           "successfully bought asset", m.asset_id)>>)

\* Mutant: an asset is sold whether or not it is for sale
Mut_buy_without_sale_check(game_state, m) ==
    LET failed(text) ==
            Returned(game_state,
                     <<BuyAssetResponse(m.player_id, game_state, FALSE, text, m.asset_id)>>)
    IN IF m.player_id \notin DOMAIN game_state.players THEN Raised(game_state, "KeyError")
       ELSE IF m.asset_id \notin DOMAIN game_state.assets THEN failed("does not exist.")
       ELSE IF game_state.players[m.player_id].money
               < game_state.assets[m.asset_id].minimum_acquisition_price
            THEN failed("cannot afford asset")
       ELSE LET new_players ==
                    subtract_money(game_state.players, m.player_id,
                                   game_state.assets[m.asset_id].minimum_acquisition_price)
                new_assets == change_owner(game_state.assets, m.asset_id, m.player_id)
                new_game_state ==
                    [game_state EXCEPT !.players = new_players, !.assets = new_assets]
            IN Returned(new_game_state,
                        <<BuyAssetResponse(m.player_id, new_game_state, TRUE,
                                           "successfully bought asset", m.asset_id)>>)

\* Mutant: the asset is looked up before the player
Mut_buy_checks_asset_first(game_state, m) ==
    IF m.asset_id \notin DOMAIN game_state.assets
    THEN Returned(game_state,
                  <<BuyAssetResponse(m.player_id, game_state, FALSE,
                                     "does not exist.", m.asset_id)>>)
    ELSE Raised(game_state, "KeyError")

handle_buy_asset_message(game_state, m) ==
    LET failed(text) ==
            Returned(game_state,
                     <<BuyAssetResponse(m.player_id, game_state, FALSE, text, m.asset_id)>>)
    IN IF m.player_id \notin DOMAIN game_state.players THEN Raised(game_state, "KeyError")
       ELSE IF m.asset_id \notin DOMAIN game_state.assets THEN failed("does not exist.")
       ELSE IF ~game_state.assets[m.asset_id].is_for_sale THEN failed("is not for sale.")
       ELSE IF game_state.players[m.player_id].money
               < game_state.assets[m.asset_id].minimum_acquisition_price
            THEN failed("cannot afford asset")
       ELSE LET new_players ==
                    subtract_money(game_state.players, m.player_id,
                                   game_state.assets[m.asset_id].minimum_acquisition_price)
                new_assets == change_owner(game_state.assets, m.asset_id, m.player_id)
                new_game_state ==
                    [game_state EXCEPT !.players = new_players, !.assets = new_assets]
            IN Returned(new_game_state,
                        <<BuyAssetResponse(m.player_id, new_game_state, TRUE,
                                           "successfully bought asset", m.asset_id)>>)

\* Mutant: the phase is concluded at every EndTurn
Mut_end_turn_always_concludes(game_state, m) ==
    LET new_game_state ==
            [game_state EXCEPT !.players = end_turn(game_state.players, m.player_id)]
    IN Returned(new_game_state, <<ConcludePhase(new_game_state.phase)>>)

\* Mutant: the players of the input state decide whether all have finished
Mut_end_turn_checks_input(game_state, m) ==
    LET new_game_state ==
            [game_state EXCEPT !.players = end_turn(game_state.players, m.player_id)]
    IN IF are_all_players_finished(game_state.players)
       THEN Returned(new_game_state, <<ConcludePhase(new_game_state.phase)>>)
       ELSE Returned(new_game_state, <<>>)

\* Mutant: ending a turn costs the player all money
Mut_end_turn_takes_money(game_state, m) ==
    LET new_players ==
            [end_turn(game_state.players, m.player_id) EXCEPT ![m.player_id].money = 0]
        new_game_state == [game_state EXCEPT !.players = new_players]
    IN Returned(new_game_state,
                IF are_all_players_finished(new_players)
                THEN <<ConcludePhase(game_state.phase)>> ELSE <<>>)

handle_end_turn_message(game_state, m) ==
    LET new_game_state ==
            [game_state EXCEPT !.players = end_turn(game_state.players, m.player_id)]
    IN IF are_all_players_finished(new_game_state.players)
       THEN Returned(new_game_state, <<ConcludePhase(new_game_state.phase)>>)
       ELSE Returned(new_game_state, <<>>)

\* Mutant: a message of no handled kind is ignored
Mut_handle_message_ignores_unknown(game_state, m, sol) ==
    IF m.kind = "ConcludePhase" THEN handle_new_phase_message(game_state, m, sol)
    ELSE IF m.kind = "UpdateBidRequest" THEN handle_update_bid_message(game_state, m)
    ELSE IF m.kind = "BuyAssetRequest" THEN handle_buy_asset_message(game_state, m)
    ELSE IF m.kind = "EndTurn" THEN handle_end_turn_message(game_state, m)
    ELSE Returned(game_state, <<>>)

\* Engine.handle_message
handle_message(game_state, m, sol) ==
    IF m.kind = "ConcludePhase" THEN handle_new_phase_message(game_state, m, sol)
    ELSE IF m.kind = "UpdateBidRequest" THEN handle_update_bid_message(game_state, m)
    ELSE IF m.kind = "BuyAssetRequest" THEN handle_buy_asset_message(game_state, m)
    ELSE IF m.kind = "EndTurn" THEN handle_end_turn_message(game_state, m)
    ELSE Raised(game_state, "NotImplementedError")

----------------------------------------------------------------------------
(* Inputs *)

\* AssetId(-5) of the engine's test: an id no asset has
UnknownAssetId == -5

AssetIdInputs == AssetIds \cup {UnknownAssetId}

\* A player id that no player repository holds
UnknownPlayerId == 5

PlayerIdInputs == PlayerIds \cup {UnknownPlayerId}

\* Bid prices a player may send: below the range, its lower end, inside,
\* above the range
BidInputs == {MinBidPrice - 1, MinBidPrice, 0, MaxBidPrice + 1}

IsConcludePhase(m) == m.kind = "ConcludePhase"

\* Mutant: every returned message counts as an engine event
Mut_every_message_is_engine_event(m) == TRUE

\* isinstance(e, EngineEvent): a message from the engine to a player
IsEngineEvent(m) == m.kind \in {"GameUpdate", "BuyAssetResponse", "UpdateBidResponse"}

\* The callers of handle_player_event that run at the same time
Threads == {1, 2}

Idle == [pc |-> "idle", event |-> NoMessage, game_state |-> NoResult]

\* No repository under test
NoCall == [kind |-> "none"]

----------------------------------------------------------------------------
(* GameManager *)

\* Mutant: the state is written after every stage that the engine handled
Mut_handle_event_writes_every_stage(e, sol) ==
    LET r == handle_message(gs, e, sol)
        new_phase_events == SelectSeq(r.msgs, IsConcludePhase)
    IN /\ msg' = e
       /\ err' = IF r.err = "none" /\ Len(new_phase_events) > 1
                 THEN "AssertionError" ELSE r.err
       /\ solver' = IF e.kind = "ConcludePhase" /\ e.phase = DA_AUCTION
                    THEN sol.status ELSE "none"
       /\ delivered' = (IF IsConcludePhase(e) THEN delivered ELSE <<>>)
                        \o (IF r.err = "none" THEN SelectSeq(r.msgs, IsEngineEvent)
                            ELSE <<>>)
       /\ UNCHANGED <<threads, ldc>>
       /\ IF err' # "none"
          THEN /\ out' = <<>>
               /\ gs' = repo
               /\ pending' = <<>>
               /\ UNCHANGED repo
          ELSE /\ out' = r.msgs
               /\ gs' = r.state
               /\ pending' = new_phase_events
               /\ repo' = r.state


\* One pass of GameManager.handle_event over event e: the engine call, then
\* either the return to handle_player_event, which stores the state, or the
\* recursive call on the NewPhase event. An exception leaves
\* handle_player_event before update_game.
HandleEvent(e, sol) ==
    LET r == handle_message(gs, e, sol)
        new_phase_events == SelectSeq(r.msgs, IsConcludePhase)
    IN /\ msg' = e
       /\ err' = IF r.err = "none" /\ Len(new_phase_events) > 1
                 THEN "AssertionError" ELSE r.err
       /\ solver' = IF e.kind = "ConcludePhase" /\ e.phase = DA_AUCTION
                    THEN sol.status ELSE "none"
       /\ delivered' = (IF IsConcludePhase(e) THEN delivered ELSE <<>>)
                        \o (IF r.err = "none" THEN SelectSeq(r.msgs, IsEngineEvent)
                            ELSE <<>>)
       /\ UNCHANGED <<threads, ldc>>
       /\ IF err' # "none"
          THEN /\ out' = <<>>
               /\ gs' = repo
               /\ pending' = <<>>
               /\ UNCHANGED repo
          ELSE /\ out' = r.msgs
               /\ gs' = r.state
               /\ pending' = new_phase_events
               /\ repo' = IF new_phase_events = <<>> THEN r.state ELSE repo

NoSolve == [status |-> "none", result |-> NoResult]

PlayerEndTurn ==
    /\ pending = <<>>
    /\ \E p \in PlayerIds : HandleEvent(EndTurn(p), NoSolve)

PlayerBuyAsset ==
    /\ pending = <<>>
    /\ \E p \in PlayerIdInputs, a \in AssetIdInputs :
          HandleEvent(BuyAssetRequest(p, a), NoSolve)

PlayerUpdateBid ==
    /\ pending = <<>>
    /\ \E p \in PlayerIdInputs, a \in AssetIdInputs, b \in BidInputs :
          HandleEvent(UpdateBidRequest(p, a, b), NoSolve)

\* return self.handle_event(game_state=game_state, event=new_phase_events[0])
RefeedNewPhase ==
    /\ pending # <<>>
    /\ \E sol \in SolverOutcomes(gs) : HandleEvent(pending[1], sol)

Init ==
    /\ gs \in create_new_game
    /\ repo = gs
    /\ pending = <<>>
    /\ msg = NoMessage
    /\ out = <<>>
    /\ err = "none"
    /\ solver = "none"
    /\ delivered = <<>>
    /\ threads = [t \in Threads |-> Idle]
    /\ ldc = NoCall

Next == PlayerEndTurn \/ PlayerBuyAsset \/ PlayerUpdateBid \/ RefeedNewPhase

Spec == Init /\ [][Next]_vars

----------------------------------------------------------------------------
(* The engine called directly, as its tests do: one call on a game state *)

\* The result of an earlier auction in which nothing was dispatched
EarlierResult(g) ==
    MarketCouplingResult([b \in DOMAIN g.buses |-> 0],
                         [l \in DOMAIN g.transmission |-> 0],
                         [a \in DOMAIN g.assets |-> 0])

\* Game states a caller may hand to the engine: a new game in any phase,
\* before or after an earlier auction, turns started or not, the first
\* player rich or poor, the first npc generator sold, withdrawn from sale or
\* inactive, the first line owned by the first player or inactive
EngineStates ==
    { [g EXCEPT
         !.phase = ph,
         !.market_coupling_result = IF had THEN EarlierResult(g) ELSE NoResult,
         !.players = [p \in PlayerIds |->
                        [money |-> IF p = 1 THEN m1 ELSE InitialFunds,
                         is_having_turn |-> t]],
         !.assets[NPlayers + 1] =
             [@ EXCEPT !.owner_player = o, !.is_for_sale = (o = NPC /\ fs),
                       !.is_active = act],
         !.transmission[1] = [@ EXCEPT !.owner_player = lo, !.is_active = act]] :
        g \in create_new_game, ph \in Phase, m1 \in {PoorFunds, InitialFunds},
        t \in BOOLEAN, o \in PlayerIds \cup {NPC}, fs \in BOOLEAN,
        act \in BOOLEAN, lo \in {NPC, 1}, had \in BOOLEAN }

\* Engine.handle_message(game_state, m)
EngineCall(m, sol) ==
    LET r == handle_message(gs, m, sol)
    IN /\ msg' = m
       /\ err' = r.err
       /\ out' = r.msgs
       /\ gs' = r.state
       /\ solver' = IF m.kind = "ConcludePhase" /\ m.phase = DA_AUCTION
                    THEN sol.status ELSE "none"
       /\ UNCHANGED <<repo, pending, delivered, threads, ldc>>

\* One call per run: the inputs are the initial states
NotCalled == msg = NoMessage

EngineEndTurn ==
    /\ NotCalled
    /\ \E p \in PlayerIds : EngineCall(EndTurn(p), NoSolve)

EngineBuyAsset ==
    /\ NotCalled
    /\ \E p \in PlayerIdInputs, a \in AssetIdInputs :
          EngineCall(BuyAssetRequest(p, a), NoSolve)

EngineUpdateBid ==
    /\ NotCalled
    /\ \E p \in PlayerIdInputs, a \in AssetIdInputs, b \in BidInputs :
          EngineCall(UpdateBidRequest(p, a, b), NoSolve)

EngineConcludePhase ==
    /\ NotCalled
    /\ \E ph \in Phase, sol \in SolverOutcomes(gs) : EngineCall(ConcludePhase(ph), sol)

EngineDummyMessage ==
    /\ NotCalled
    /\ \E p \in PlayerIds : EngineCall(DummyMessage(p), NoSolve)

\* Engine.update_game_state_with_market_coupling_result(game_state, result)
EngineSettle ==
    \E t \in SolverTables(gs) :
        LET r == update_game_state_with_market_coupling_result(gs, t)
        IN /\ NotCalled
           /\ msg' = [kind |-> "update_game_state_with_market_coupling_result",
                      market_coupling_result |-> t]
           /\ err' = r.err
           /\ out' = <<>>
           /\ gs' = r.state
           /\ UNCHANGED <<repo, pending, solver, delivered, threads, ldc>>

InitEngine ==
    /\ gs \in EngineStates
    /\ repo = NoResult
    /\ pending = <<>>
    /\ msg = NoMessage
    /\ out = <<>>
    /\ err = "none"
    /\ solver = "none"
    /\ delivered = <<>>
    /\ threads = [t \in Threads |-> Idle]
    /\ ldc = NoCall

NextEngine ==
    \/ EngineEndTurn
    \/ EngineBuyAsset
    \/ EngineUpdateBid
    \/ EngineConcludePhase
    \/ EngineDummyMessage
    \/ EngineSettle

SpecEngine == InitEngine /\ [][NextEngine]_vars

----------------------------------------------------------------------------
(* GameManager.handle_player_event called by two callers at the same time *)

\* The events a player may send
PlayerEvents ==
    {EndTurn(p) : p \in PlayerIds}
    \cup {BuyAssetRequest(p, a) : p \in PlayerIds, a \in AssetIdInputs}
    \cup {UpdateBidRequest(p, a, b) : p \in PlayerIds, a \in AssetIdInputs, b \in BidInputs}

\* GameManager.handle_event(state, e) as a function of its arguments: the
\* states it may return (ok), or the state it was given when it raises
RECURSIVE HandleEventOutcomes(_, _)
HandleEventOutcomes(state, e) ==
    UNION { LET r == handle_message(state, e, sol)
                new_phase_events == SelectSeq(r.msgs, IsConcludePhase)
            IN IF r.err # "none" \/ Len(new_phase_events) > 1
               THEN {[ok |-> FALSE, state |-> state]}
               ELSE IF new_phase_events = <<>>
               THEN {[ok |-> TRUE, state |-> r.state]}
               ELSE HandleEventOutcomes(r.state, new_phase_events[1]) :
            sol \in IF e.kind = "ConcludePhase" /\ e.phase = DA_AUCTION
                    THEN SolverOutcomes(state) ELSE {NoSolve} }

\* game_state = self.game_repo.get_game(game_id)
GetGame ==
    \E t \in Threads, e \in PlayerEvents :
        /\ threads[t].pc = "idle"
        /\ threads' = [threads EXCEPT
                           ![t] = [pc |-> "handling", event |-> e, game_state |-> repo]]
        /\ UNCHANGED <<gs, repo, pending, msg, out, err, solver, delivered, ldc>>

\* updated_game_state = self.handle_event(...); self.game_repo.update_game(...)
UpdateGame ==
    \E t \in Threads :
        /\ threads[t].pc = "handling"
        /\ \E o \in HandleEventOutcomes(threads[t].game_state, threads[t].event) :
              /\ threads' = [threads EXCEPT ![t].pc = IF o.ok THEN "done" ELSE "raised"]
              /\ repo' = IF o.ok THEN o.state ELSE repo
        /\ UNCHANGED <<gs, pending, msg, out, err, solver, delivered, ldc>>

InitConcurrent == Init

NextConcurrent == GetGame \/ UpdateGame

SpecConcurrent == InitConcurrent /\ [][NextConcurrent]_vars

----------------------------------------------------------------------------
(* LdcRepo: a repository is a data frame, the rows in order, indexed by id *)

\* Largest id and longest list of the repositories under test
MaxId == 2
MaxRows == 2

PlayerRepoClass == "PlayerRepo"
TransmissionRepoClass == "TransmissionRepo"
RepoClasses == {PlayerRepoClass, TransmissionRepoClass}

\* Player and TransmissionInfo objects, as to_simple_dict gives them
PlayerRows ==
    [id : 1..MaxId, money : {InitialFunds}, is_having_turn : BOOLEAN]
TransmissionRows ==
    [id : 1..MaxId, owner_player : {NPC, 1}, bus1 : {1}, bus2 : {2}]

\* _get_dc_type
DcType(cls) == IF cls = PlayerRepoClass THEN PlayerRows ELSE TransmissionRows

NoRepo == [class |-> "none", df |-> <<>>]

\* Lists of at most MaxRows objects of a class's type
DcLists(cls) == UNION { [1..n -> DcType(cls)] : n \in 0..MaxRows }

\* df.index.is_unique
IsUnique(df) == \A i, j \in 1..Len(df) : df[i].id = df[j].id => i = j

Index(df) == {df[i].id : i \in 1..Len(df)}

RowsOf(df) == {df[i] : i \in 1..Len(df)}

\* What a call returns: the repository returned or the exception raised, and
\* the frame of the receiver after the call
Outcome(self_df, e, r) == [err |-> e, repo |-> r, self_df |-> self_df]

\* LdcRepo.__init__ on a list of objects or on a frame
LdcRepo_init(cls, dcs, is_list) ==
    IF is_list /\ Len(dcs) = 0 THEN [err |-> "AssertionError", repo |-> NoRepo]
    ELSE IF ~IsUnique(dcs) THEN [err |-> "AssertionError", repo |-> NoRepo]
    ELSE [err |-> "none", repo |-> [class |-> cls, df |-> dcs]]

\* A frame is taken over as it is
Mut_from_frame_unchecked(cls, df) ==
    [err |-> "none", repo |-> [class |-> cls, df |-> df]]

\* LdcRepo.from_frame
from_frame(cls, df) == LdcRepo_init(cls, df, FALSE)

\* The property df: a deep copy of the frame
DeepCopy(df) == df

\* A call that builds its result from a copy and leaves the receiver's frame
Built(self, made) == Outcome(self.df, made.err, made.repo)

\* LdcRepo.__add__ / add, with another repository or with one object
add(self, other, other_is_repo) ==
    IF other_is_repo
    THEN IF other.class # self.class THEN Outcome(self.df, "TypeError", NoRepo)
         ELSE Built(self, from_frame(self.class, DeepCopy(self.df) \o DeepCopy(other.df)))
    ELSE IF other \notin DcType(self.class) THEN Outcome(self.df, "TypeError", NoRepo)
         ELSE Built(self, from_frame(self.class, DeepCopy(self.df) \o <<other>>))

\* _condition_to_logical_indexer for a one-key dictionary condition
Matches(row, key, value) == row[key] = value

\* LdcRepo.filter
filter(self, key, value) ==
    LET keep(row) == Matches(row, key, value)
    IN Built(self, LdcRepo_init(self.class, SelectSeq(DeepCopy(self.df), keep), FALSE))

\* LdcRepo.drop_items
drop_items(self, key, value) ==
    LET keep(row) == ~Matches(row, key, value)
    IN Built(self, from_frame(self.class, SelectSeq(DeepCopy(self.df), keep)))

\* LdcRepo.drop_by_ids: DataFrame.drop raises KeyError for a missing label
drop_by_ids(self, ids) ==
    LET keep(row) == row.id \notin ids
    IN IF ~(ids \subseteq Index(self.df)) THEN Outcome(self.df, "KeyError", NoRepo)
       ELSE Built(self, from_frame(self.class, SelectSeq(DeepCopy(self.df), keep)))

\* TransmissionRepo.delete_for_player
delete_for_player(self, player_id) == drop_items(self, "owner_player", player_id)

\* PlayerRepo.delete_player / drop_one
delete_player(self, player_id) == drop_by_ids(self, {player_id})

\* A frame with the money of one row replaced
WithMoney(df, player_id, amount) ==
    [i \in 1..Len(df) |->
        IF df[i].id = player_id THEN [df[i] EXCEPT !.money = @ + amount] ELSE df[i]]

\* The receiver's own frame is adjusted in place and then handed on
Mut_add_money_in_place(self, player_id, amount) ==
    IF player_id \notin Index(self.df) THEN Outcome(self.df, "KeyError", NoRepo)
    ELSE LET made == from_frame(self.class, WithMoney(self.df, player_id, amount))
         IN Outcome(WithMoney(self.df, player_id, amount), made.err, made.repo)

\* PlayerRepo._adjust_money / add_money: the copy self.df is adjusted
PlayerRepo_add_money(self, player_id, amount) ==
    IF player_id \notin Index(self.df) THEN Outcome(self.df, "KeyError", NoRepo)
    ELSE Built(self, from_frame(self.class, WithMoney(DeepCopy(self.df), player_id, amount)))

\* LdcRepo.__eq__: DataFrame.equals compares index and values row by row
Eq(self, other) ==
    IF self.class # other.class THEN FALSE ELSE self.df = other.df

\* LdcRepo.to_simple_dict
to_simple_dict(self) == [class |-> self.class, data |-> self.df]

\* LdcRepo.from_simple_dict
from_simple_dict(cls, data) ==
    IF data.class # cls THEN [err |-> "AssertionError", repo |-> NoRepo]
    ELSE LdcRepo_init(cls, data.data, TRUE)

----------------------------------------------------------------------------
(* The repository operations, called on a repository under test *)

\* Amount of an add_money call, and the money above which no more is added
AddAmount == 100
MoneyCap == 1100

\* The repositories a list or a frame can be built into
ValidRepos(cls) ==
    {[class |-> cls, df |-> dcs] : dcs \in {d \in DcLists(cls) : IsUnique(d)}}

\* Dictionary conditions on one column
Conditions(cls) ==
    IF cls = PlayerRepoClass
    THEN {<<"is_having_turn", b>> : b \in BOOLEAN}
    ELSE {<<"owner_player", p>> : p \in {NPC, 1}}

NoValue == "none"

\* A repository as it leaves its constructor
Constructed(made, how, args) ==
    [kind |-> "new", op |-> <<how>> \o args, original |-> made.repo, self |-> made.repo,
     result |-> made, value |-> NoValue]

\* A call on the repository under test: the receiver keeps its identity and
\* has the frame the call left it with
RepoCall(name, args, o) ==
    ldc' = [kind |-> "call", op |-> <<name>> \o args, original |-> ldc.original,
            self |-> [class |-> ldc.self.class, df |-> o.self_df],
            result |-> [err |-> o.err, repo |-> o.repo], value |-> NoValue]

HasRepo == ldc.kind # "none" /\ ldc.self # NoRepo

GameUnchanged ==
    UNCHANGED <<gs, repo, pending, msg, out, err, solver, delivered, threads>>

RepoFilter ==
    /\ HasRepo
    /\ \E c \in Conditions(ldc.self.class) :
          RepoCall("filter", <<c[1], c[2]>>, filter(ldc.self, c[1], c[2]))
    /\ GameUnchanged

RepoDropItems ==
    /\ HasRepo
    /\ \E c \in Conditions(ldc.self.class) :
          RepoCall("drop_items", <<c[1], c[2]>>, drop_items(ldc.self, c[1], c[2]))
    /\ GameUnchanged

RepoDropByIds ==
    /\ HasRepo
    /\ \E ids \in SUBSET (1..MaxId) :
          RepoCall("drop_by_ids", <<ids>>, drop_by_ids(ldc.self, ids))
    /\ GameUnchanged

RepoAdd ==
    /\ HasRepo
    /\ \E x \in PlayerRows \cup TransmissionRows :
          RepoCall("add", <<x>>, add(ldc.self, x, FALSE))
    /\ GameUnchanged

RepoMerge ==
    /\ HasRepo
    /\ \E cls \in RepoClasses : \E other \in ValidRepos(cls) :
          RepoCall("merge", <<other>>, add(ldc.self, other, TRUE))
    /\ GameUnchanged

RepoAddMoney ==
    /\ HasRepo
    /\ ldc.self.class = PlayerRepoClass
    /\ \A i \in 1..Len(ldc.self.df) : ldc.self.df[i].money < MoneyCap
    /\ \E p \in 1..MaxId :
          RepoCall("add_money", <<p, AddAmount>>,
                   PlayerRepo_add_money(ldc.self, p, AddAmount))
    /\ GameUnchanged

RepoDeleteForPlayer ==
    /\ HasRepo
    /\ ldc.self.class = TransmissionRepoClass
    /\ \E p \in {NPC, 1} :
          RepoCall("delete_for_player", <<p>>, delete_for_player(ldc.self, p))
    /\ GameUnchanged

RepoDeletePlayer ==
    /\ HasRepo
    /\ ldc.self.class = PlayerRepoClass
    /\ \E p \in 1..MaxId :
          RepoCall("delete_player", <<p>>, delete_player(ldc.self, p))
    /\ GameUnchanged

RepoEq ==
    /\ HasRepo
    /\ \E cls \in RepoClasses : \E other \in ValidRepos(cls) :
          ldc' = [kind |-> "call", op |-> <<"eq", other>>, original |-> ldc.original,
                  self |-> ldc.self, result |-> [err |-> "none", repo |-> NoRepo],
                  value |-> Eq(ldc.self, other)]
    /\ GameUnchanged

RepoRoundTrip ==
    /\ HasRepo
    /\ LET made == from_simple_dict(ldc.self.class, to_simple_dict(ldc.self))
       IN ldc' = [kind |-> "call", op |-> <<"round_trip">>, original |-> ldc.original,
                  self |-> ldc.self, result |-> made, value |-> NoValue]
    /\ GameUnchanged

\* The caller goes on with the repository a call returned
RepoKeepResult ==
    /\ HasRepo
    /\ ldc.kind = "call"
    /\ ldc.result.err = "none"
    /\ ldc.result.repo # NoRepo
    /\ ldc' = Constructed(ldc.result, "returned", <<>>)
    /\ GameUnchanged

InitRepo ==
    /\ gs = CHOOSE g \in create_new_game : TRUE
    /\ repo = gs
    /\ pending = <<>>
    /\ msg = NoMessage
    /\ out = <<>>
    /\ err = "none"
    /\ solver = "none"
    /\ delivered = <<>>
    /\ threads = [t \in Threads |-> Idle]
    /\ \E cls \in RepoClasses : \E dcs \in DcLists(cls) : \E is_list \in BOOLEAN :
          ldc = Constructed(LdcRepo_init(cls, dcs, is_list),
                            IF is_list THEN "list" ELSE "frame", <<dcs>>)

NextRepo ==
    \/ RepoFilter
    \/ RepoDropItems
    \/ RepoDropByIds
    \/ RepoAdd
    \/ RepoMerge
    \/ RepoAddMoney
    \/ RepoDeleteForPlayer
    \/ RepoDeletePlayer
    \/ RepoEq
    \/ RepoRoundTrip
    \/ RepoKeepResult

SpecRepo == InitRepo /\ [][NextRepo]_vars

----------------------------------------------------------------------------
(* BaseGameInitializer.create_new_game on the transmission repository that
   the initializer's _create_transmission_repo made *)

\* n_buses of the settings of these games
NBuses == 4
NewGameBusIds == 1..NBuses

NoGame == [phase |-> "none"]

\* TransmissionInfo.__post_init__
TransmissionInfoRaises(row) == ~(row.bus2 > row.bus1)

\* The lists of lines an initializer may hand over: line i + 1 for the i-th
\* connection, owned by the npc, bus1 below bus2
Topologies ==
    UNION { { [i \in 1..n |-> [id |-> i, owner_player |-> NPC,
                               bus1 |-> c[i][1], bus2 |-> c[i][2]]] :
                c \in [1..n -> {bb \in NewGameBusIds \X NewGameBusIds : bb[1] < bb[2]}] } :
            n \in 1..MaxRows }

\* TransmissionRepo.get_all_at_bus
get_all_at_bus(self, bus) ==
    LET keep(row) == Matches(row, "bus1", bus) \/ Matches(row, "bus2", bus)
    IN SelectSeq(DeepCopy(self.df), keep)

\* LdcRepo.next_id
next_id(self) ==
    IF Len(self.df) = 0 THEN 1
    ELSE (CHOOSE m \in Index(self.df) : \A k \in Index(self.df) : k <= m) + 1

Sorted(a, b) == IF a <= b THEN <<a, b>> ELSE <<b, a>>

\* The loop of _ensure_no_islanded_buses from the given bus on: one line per
\* bus without a line, to the bus that get_random picked
RECURSIVE additional_connections(_, _, _, _)
additional_connections(bus, bus_ids, transmission_repo, pick) ==
    IF bus \notin bus_ids THEN <<>>
    ELSE (IF Len(get_all_at_bus(transmission_repo, bus)) = 0
          THEN << [id |-> next_id(transmission_repo), owner_player |-> NPC,
                   bus1 |-> Sorted(bus, pick[bus])[1],
                   bus2 |-> Sorted(bus, pick[bus])[2]] >>
          ELSE <<>>)
         \o additional_connections(bus + 1, bus_ids, transmission_repo, pick)

\* BaseGameInitializer._ensure_no_islanded_buses
ensure_no_islanded_buses(bus_ids, transmission_repo, pick) ==
    LET additional == additional_connections(1, bus_ids, transmission_repo, pick)
        made == LdcRepo_init(TransmissionRepoClass, additional, TRUE)
    IN IF \E i \in 1..Len(additional) : TransmissionInfoRaises(additional[i])
       THEN Outcome(transmission_repo.df, "AssertionError", NoRepo)
       ELSE IF Len(additional) = 0
       THEN Outcome(transmission_repo.df, "none", transmission_repo)
       ELSE IF made.err # "none"
       THEN Outcome(transmission_repo.df, made.err, NoRepo)
       ELSE add(transmission_repo, made.repo, TRUE)

\* The game state create_new_game builds around a transmission repository
NewGameState(assets, transmission_repo) ==
    [game_settings |-> GameSettings, phase |-> CONSTRUCTION,
     players |-> CreatePlayerRepo,
     buses |-> [b \in NewGameBusIds |-> [player_id |-> IF b <= NPlayers THEN b ELSE NPC]],
     assets |-> assets,
     transmission |-> [l \in Index(transmission_repo.df) |->
                          LET row == CHOOSE r \in RowsOf(transmission_repo.df) : r.id = l
                          IN [owner_player |-> row.owner_player, bus1 |-> row.bus1,
                              bus2 |-> row.bus2, is_for_sale |-> TRUE, is_active |-> TRUE]],
     market_coupling_result |-> NoResult]

\* create_new_game of an initializer whose topology is the repository under test
CreateNewGame ==
    /\ gs = NoGame
    /\ HasRepo
    /\ ldc.kind = "new"
    /\ \E pick \in [NewGameBusIds -> NewGameBusIds] : \E assets \in CreateAssetRepos :
          LET o == ensure_no_islanded_buses(NewGameBusIds, ldc.self, pick)
          IN /\ RepoCall("create_new_game", <<pick>>, o)
             /\ gs' = IF o.err = "none" THEN NewGameState(assets, o.repo) ELSE gs
    /\ UNCHANGED <<repo, pending, msg, out, err, solver, delivered, threads>>

\* create_new_game of the DefaultGameInitializer
CreateDefaultGame ==
    /\ gs = NoGame
    /\ ldc.kind = "new"
    /\ gs' \in create_new_game
    /\ ldc' = [kind |-> "call", op |-> <<"create_default_game">>,
               original |-> ldc.original, self |-> ldc.self,
               result |-> [err |-> "none", repo |-> NoRepo], value |-> NoValue]
    /\ UNCHANGED <<repo, pending, msg, out, err, solver, delivered, threads>>

InitNewGame ==
    /\ gs = NoGame
    /\ repo = NoResult
    /\ pending = <<>>
    /\ msg = NoMessage
    /\ out = <<>>
    /\ err = "none"
    /\ solver = "none"
    /\ delivered = <<>>
    /\ threads = [t \in Threads |-> Idle]
    /\ \E lines \in Topologies :
          ldc = Constructed(LdcRepo_init(TransmissionRepoClass, lines, TRUE),
                            "list", <<lines>>)

NextNewGame == CreateNewGame \/ CreateDefaultGame

SpecNewGame == InitNewGame /\ [][NextNewGame]_vars

----------------------------------------------------------------------------
(* Claims *)

Handled(kind) == msg.kind = kind /\ err = "none"

C2_AdvanceOnlyWhenAllFinished ==
    [][gs'.phase # gs.phase =>
          \A p \in PlayerIds : ~gs.players[p].is_having_turn]_vars

\* C2 witness: a re-fed ConcludePhase advanced the phase after turns had
\* been started once before (the auction result of an earlier round is there).
C2_Witness ==
    /\ Handled("ConcludePhase")
    /\ pending = <<>>
    /\ gs.phase = SNEAKY_TRICKS
    /\ ~gs.market_coupling_result.is_none

\* C3: EndTurn from p returns the input state with only p's turn flag
\* cleared, the phase as it was, and exactly one ConcludePhase of the current
\* phase when no player has an active turn afterwards, else no message.
C3_EndTurnFrame ==
    [][(msg'.kind = "EndTurn" /\ err' = "none") =>
          /\ gs' = [gs EXCEPT !.players[msg'.player_id].is_having_turn = FALSE]
          /\ gs'.phase = gs.phase
          /\ out' = IF \A p \in PlayerIds : ~gs'.players[p].is_having_turn
                    THEN <<ConcludePhase(gs.phase)>>
                    ELSE <<>>]_vars

\* C3 witness: an EndTurn that left another player's turn active.
C3_Witness ==
    /\ Handled("EndTurn")
    /\ out = <<>>
    /\ ~gs.players[msg.player_id].is_having_turn
    /\ \E p \in PlayerIds : gs.players[p].is_having_turn

\* The orders in which the players may end their turns
EndTurnOrders ==
    {o \in [1..NPlayers -> PlayerIds] : \A i, j \in 1..NPlayers : o[i] = o[j] => i = j}

\* The state and the message lists after EndTurn from order[1], .., order[n]
RECURSIVE EndTurnRun(_, _, _)
EndTurnRun(state, order, i) ==
    IF i > Len(order) THEN [state |-> state, outs |-> <<>>]
    ELSE LET r == handle_end_turn_message(state, EndTurn(order[i]))
             rest == EndTurnRun(r.state, order, i + 1)
         IN [state |-> rest.state, outs |-> <<r.msgs>> \o rest.outs]

\* C4: from a state in which all players have an active turn, one EndTurn
\* per player in any order ends in the same state (all flags false, the rest
\* unchanged), and only the last EndTurn emits a ConcludePhase, exactly one.
C4_EndTurnAnyOrder ==
    (\A p \in PlayerIds : gs.players[p].is_having_turn) =>
        \A order \in EndTurnOrders :
            LET run == EndTurnRun(gs, order, 1)
            IN /\ run.state =
                    [gs EXCEPT !.players =
                        [p \in PlayerIds |-> [gs.players[p] EXCEPT !.is_having_turn = FALSE]]]
               /\ \A i \in 1..(NPlayers - 1) : run.outs[i] = <<>>
               /\ run.outs[NPlayers] = <<ConcludePhase(gs.phase)>>

\* C4 witness: in a phase entered with all turns started, the last EndTurn
\* has been handled and emitted the ConcludePhase.
C4_Witness ==
    /\ Handled("EndTurn")
    /\ gs.phase = SNEAKY_TRICKS
    /\ \A p \in PlayerIds : ~gs.players[p].is_having_turn
    /\ out = <<ConcludePhase(SNEAKY_TRICKS)>>

\* the indices of the GameUpdate messages to p with the given text
UpdatesTo(msgs, p, state, text) ==
    {i \in 1..Len(msgs) : msgs[i] = GameUpdate(p, state, text)}

\* C5: after ConcludePhase every player's turn flag is true, every player id
\* is sent a GameUpdate carrying the returned state, and after DA_AUCTION
\* every player is sent a second one with the balance before and after.
C5_ConcludePhaseBroadcast ==
    [][(msg'.kind = "ConcludePhase" /\ err' = "none") =>
          /\ \A p \in PlayerIds : gs'.players[p].is_having_turn
          /\ \A i \in 1..Len(out') :
                out'[i].kind = "GameUpdate" /\ out'[i].game_state = gs'
          /\ \A p \in PlayerIds :
                /\ UpdatesTo(out', p, gs', <<"Phase changed to", gs'.phase>>) # {}
                /\ msg'.phase = DA_AUCTION =>
                      UpdatesTo(out', p, gs',
                                <<"Day-ahead market cleared", gs.players[p].money,
                                  gs'.players[p].money>>) # {}]_vars

\* C5 witness: a day-ahead auction was concluded and two updates per player
\* were returned.
C5_Witness ==
    /\ Handled("ConcludePhase")
    /\ msg.phase = DA_AUCTION
    /\ Len(out) = 2 * NPlayers

\* The players after every player's settlement cashflow has been added
Settled(state, mcr) ==
    [p \in PlayerIds |->
        [state.players[p] EXCEPT !.money = @ + DeltaMoney(state, mcr, p)]]

\* C6 (as claimed): after ConcludePhase(DA_AUCTION) each player's money is the
\* money before the auction plus the settlement cashflow of this auction's
\* result on the pre-auction state, and the balance message reports the two.
C6_AuctionSettlesEveryPlayer ==
    [][(msg'.kind = "ConcludePhase" /\ msg'.phase = DA_AUCTION /\ err' = "none") =>
          \A p \in PlayerIds :
              /\ gs'.players[p].money =
                    gs.players[p].money + DeltaMoney(gs, gs'.market_coupling_result, p)
              /\ UpdatesTo(out', p, gs',
                           <<"Day-ahead market cleared", gs.players[p].money,
                             gs.players[p].money
                             + DeltaMoney(gs, gs'.market_coupling_result, p)>>) # {}]_vars

\* C7 (as claimed): update_game_state_with_market_coupling_result returns the
\* input state with every player's money raised by that player's cashflow
\* and the result attached, nothing else changed.
C7_SettlementPaysEveryPlayer ==
    [][(msg'.kind = "update_game_state_with_market_coupling_result" /\ err' = "none") =>
          gs' = [gs EXCEPT !.players = Settled(gs, msg'.market_coupling_result),
                           !.market_coupling_result = msg'.market_coupling_result]]_vars

\* C8 (as claimed): a DA_AUCTION conclusion during which the solver reported
\* a status other than optimal ends with an error, the stored state as it was.
C8_NonOptimalSolveAborts ==
    (msg.kind = "ConcludePhase" /\ msg.phase = DA_AUCTION /\ solver # "ok") =>
        (err # "none" /\ gs = repo /\ gs.phase = DA_AUCTION)

\* C9: a successful BuyAssetRequest returns the input state with the asset
\* owned by the buyer, not for sale, and the buyer's money lower by the
\* asset's minimum_acquisition_price, all at once and nothing else changed.
C9_BuyAssetAtomic ==
    [][(msg'.kind = "BuyAssetRequest" /\ err' = "none" /\ out'[1].success) =>
          LET p == msg'.player_id
              a == msg'.asset_id
          IN gs' = [gs EXCEPT !.assets[a].owner_player = p,
                              !.assets[a].is_for_sale = FALSE,
                              !.players[p].money =
                                  @ - gs.assets[a].minimum_acquisition_price]]_vars

\* C9 witness: a player has bought the first npc generator.
C9_Witness ==
    /\ Handled("BuyAssetRequest")
    /\ out[1].success
    /\ gs.assets[msg.asset_id].owner_player = msg.player_id
    /\ gs.players[msg.player_id].money = InitialFunds - InitialFunds \div 4

\* A BuyAssetRequest the engine is to reject, judged on the input state
BuyIsToBeRejected(state, m) ==
    \/ m.asset_id \notin DOMAIN state.assets
    \/ ~state.assets[m.asset_id].is_for_sale
    \/ state.players[m.player_id].money < state.assets[m.asset_id].minimum_acquisition_price

C11_OutOfRangeBidRejected ==
    [][(msg'.kind = "UpdateBidRequest"
        /\ (\/ msg'.bid_price < gs.game_settings.min_bid_price
            \/ msg'.bid_price > gs.game_settings.max_bid_price)) =>
          /\ err' = "none"
          /\ gs' = gs
          /\ Len(out') = 1
          /\ out'[1].kind = "UpdateBidResponse"
          /\ out'[1].game_state = gs
          /\ ~out'[1].success]_vars

\* The out-of-range request of a player of the game, or for an unknown
\* asset, returns the input state and one response with success = false
OutOfRangeBidOfPlayerStep ==
    (/\ msg'.kind = "UpdateBidRequest"
     /\ (\/ msg'.bid_price < gs.game_settings.min_bid_price
         \/ msg'.bid_price > gs.game_settings.max_bid_price)
     /\ (\/ msg'.player_id \in DOMAIN gs.players
         \/ msg'.asset_id \notin DOMAIN gs.assets)) =>
        /\ err' = "none"
        /\ gs' = gs
        /\ Len(out') = 1
        /\ out'[1].kind = "UpdateBidResponse"
        /\ out'[1].game_state = gs
        /\ ~out'[1].success

C11_OutOfRangeBidOfPlayerRejected == [][OutOfRangeBidOfPlayerStep]_vars

\* An out-of-range bid on an existing asset from an id that is no player's
C11_WitnessUnknownPlayer ==
    /\ msg.kind = "UpdateBidRequest"
    /\ msg.bid_price > gs.game_settings.max_bid_price
    /\ msg.player_id \notin DOMAIN gs.players
    /\ msg.asset_id \in DOMAIN gs.assets
    /\ err = "KeyError"

\* C11 witness: the owner's request was rejected for its price alone.
C11_Witness ==
    /\ Handled("UpdateBidRequest")
    /\ msg.asset_id \in AssetIds
    /\ gs.assets[msg.asset_id].owner_player = msg.player_id
    /\ msg.bid_price > MaxBidPrice
    /\ out[1].message = "Bid price is not within the allowed range"

\* C12: an asset's bid_price changes only in a step that handles an
\* UpdateBidRequest for that asset sent by its owner; a request from another
\* player is rejected with the state unchanged; a successful request leaves
\* the state as it was but for the asset's bid_price, which is the requested
\* price.
C12_OnlyOwnerChangesBid ==
    [][/\ \A a \in AssetIds :
             gs'.assets[a].bid_price # gs.assets[a].bid_price =>
                 /\ msg'.kind = "UpdateBidRequest"
                 /\ msg'.asset_id = a
                 /\ msg'.player_id = gs.assets[a].owner_player
       /\ (msg'.kind = "UpdateBidRequest" /\ msg'.asset_id \in AssetIds
           /\ msg'.player_id # gs.assets[msg'.asset_id].owner_player) =>
             /\ gs' = gs
             /\ msg'.player_id \in DOMAIN gs.players =>
                   (err' = "none" /\ Len(out') = 1 /\ ~out'[1].success)
             /\ msg'.player_id \notin DOMAIN gs.players => err' = "KeyError"
       /\ (msg'.kind = "UpdateBidRequest" /\ err' = "none" /\ out'[1].success) =>
             gs' = [gs EXCEPT !.assets[msg'.asset_id].bid_price = msg'.bid_price]]_vars

\* C12 witness: a player who bought the npc generator has changed its bid,
\* the ice-cream assets' bids being as created.
C12_Witness ==
    /\ Handled("UpdateBidRequest")
    /\ out[1].success
    /\ msg.asset_id = NPlayers + 1
    /\ gs.assets[NPlayers + 1].owner_player = msg.player_id
    /\ gs.assets[NPlayers + 1].bid_price = msg.bid_price
    /\ msg.bid_price # InitialFunds \div 20
    /\ \A a \in 1..NPlayers : gs.assets[a].bid_price = InitialFunds \div 2

\* Twice the worst-case cashflow of a request: over the sender's active
\* assets, price * cashflow sign * (power_expected + 5 * power_std), the
\* price being the requested one for the asset of the request
WorstCaseCashflowX2(state, m) ==
    LET mine == {a \in AssetIds : /\ state.assets[a].owner_player = m.player_id
                                  /\ state.assets[a].is_active}
        price(a) == IF a = m.asset_id THEN m.bid_price ELSE state.assets[a].bid_price
        sign(a) == IF state.assets[a].asset_type = GENERATOR THEN 1 ELSE -1
    IN SumOver(mine,
               [a \in AssetIds |->
                   price(a) * sign(a)
                   * (2 * state.assets[a].power_expected + 5 * state.assets[a].power_std_x2)])

\* An UpdateBidRequest with a price in the range, from the asset's owner
InRangeFromOwner(state, m) ==
    /\ m.kind = "UpdateBidRequest"
    /\ m.asset_id \in AssetIds
    /\ m.player_id = state.assets[m.asset_id].owner_player
    /\ state.game_settings.min_bid_price <= m.bid_price
    /\ m.bid_price <= state.game_settings.max_bid_price

\* C13: an in-range UpdateBidRequest from the asset's owner is rejected, the
\* state unchanged, exactly when the player's money minus the worst-case
\* cashflow is below zero; otherwise it succeeds.
C13_BidAffordability ==
    [][InRangeFromOwner(gs, msg') =>
          /\ err' = "none"
          /\ Len(out') = 1
          /\ IF 2 * gs.players[msg'.player_id].money - WorstCaseCashflowX2(gs, msg') < 0
             THEN ~out'[1].success /\ gs' = gs
             ELSE /\ out'[1].success
                  /\ gs'.assets[msg'.asset_id].bid_price = msg'.bid_price]_vars

\* C13 witness: a request was rejected for the worst case although the
\* player could afford the same asset at its current bid price.
C13_Witness ==
    /\ Handled("UpdateBidRequest")
    /\ InRangeFromOwner(gs, msg)
    /\ ~out[1].success
    /\ 2 * gs.players[msg.player_id].money
         - WorstCaseCashflowX2(gs, [msg EXCEPT !.bid_price = gs.assets[msg.asset_id].bid_price])
         >= 0
    /\ \E a \in NpcAssetIds :
          gs.assets[a].owner_player = msg.player_id /\ gs.assets[a].is_active

\* C13, the other case: the owner of an active generator has changed that
\* generator's bid.
C13_WitnessAccepted ==
    /\ Handled("UpdateBidRequest")
    /\ InRangeFromOwner(gs, msg)
    /\ out[1].success
    /\ msg.asset_id \in NpcAssetIds
    /\ gs.assets[msg.asset_id].is_active

\* C14: a player's money changes only in a step that handles that player's
\* successful BuyAssetRequest or the conclusion of DA_AUCTION; UpdateBid,
\* EndTurn, a rejected BuyAsset and the conclusion of CONSTRUCTION or
\* SNEAKY_TRICKS leave every player's money unchanged.
C14_MoneyFrame ==
    [][\A p \in PlayerIds :
          gs'.players[p].money # gs.players[p].money =>
              \/ /\ msg'.kind = "BuyAssetRequest"
                 /\ msg'.player_id = p
                 /\ err' = "none"
                 /\ out'[1].success
              \/ /\ msg'.kind = "ConcludePhase"
                 /\ msg'.phase = DA_AUCTION
                 /\ err' = "none"]_vars

\* C14 witness: after a purchase has lowered a player's money, a phase other
\* than DA_AUCTION was concluded and the money is still the lowered amount.
C14_Witness ==
    /\ Handled("ConcludePhase")
    /\ msg.phase # DA_AUCTION
    /\ \E p \in PlayerIds : gs.players[p].money = InitialFunds - InitialFunds \div 4

\* C15: in every state reachable from a new game each ice-cream asset is a
\* LOAD, is owned by the human player it was created for, and is not for
\* sale.
C15_IceCreamInvariant ==
    \A a \in AssetIds :
        gs.assets[a].is_ice_cream =>
            /\ gs.assets[a].asset_type = LOAD
            /\ gs.assets[a].owner_player = a
            /\ gs.assets[a].owner_player \in PlayerIds
            /\ ~gs.assets[a].is_for_sale

\* C15 witness: another player's request to buy an ice-cream asset was
\* handled.
C15_Witness ==
    /\ Handled("BuyAssetRequest")
    /\ msg.asset_id \in 1..NPlayers
    /\ gs.assets[msg.asset_id].is_ice_cream
    /\ msg.player_id # msg.asset_id
    /\ ~out[1].success

\* Steps that are to leave market_coupling_result alone: UpdateBid, BuyAsset,
\* EndTurn, and the conclusion of CONSTRUCTION or SNEAKY_TRICKS
KeepsResult(m) ==
    \/ m.kind \in {"UpdateBidRequest", "BuyAssetRequest", "EndTurn"}
    \/ m.kind = "ConcludePhase" /\ m.phase # DA_AUCTION

\* The steps of C16: the listed messages leave the attached result unchanged;
\* a DA_AUCTION conclusion attaches the result of its own auction, which is in
\* the state whose phase has advanced.
C16_ResultSteps ==
    [][/\ KeepsResult(msg') =>
             gs'.market_coupling_result = gs.market_coupling_result
       /\ (msg'.kind = "ConcludePhase" /\ msg'.phase = DA_AUCTION /\ err' = "none") =>
             /\ gs'.market_coupling_result \in SolverTables(gs)
             /\ gs'.phase = CONSTRUCTION
             /\ \A i \in 1..Len(out') :
                   out'[i].game_state.market_coupling_result = gs'.market_coupling_result
       /\ gs'.market_coupling_result # gs.market_coupling_result =>
             msg'.kind \in {"ConcludePhase",
                             "update_game_state_with_market_coupling_result"}]_vars

\* C16: market_coupling_result is None at creation and stays None until the
\* first DA_AUCTION conclusion; each DA_AUCTION conclusion replaces it with
\* that auction's result, which stays attached across the phase change;
\* UpdateBid, BuyAsset, EndTurn and the other conclusions leave it unchanged.
C16_ResultRetained ==
    /\ \A g \in create_new_game : g.market_coupling_result = NoResult
    /\ C16_ResultSteps

\* C16 witness: a DA_AUCTION conclusion has attached its auction's result,
\* which is neither None nor the result of the earlier auction.
C16_Witness ==
    /\ Handled("ConcludePhase")
    /\ msg.phase = DA_AUCTION
    /\ gs.phase = CONSTRUCTION
    /\ gs.market_coupling_result \in SolverTables(gs)
    /\ gs.market_coupling_result # EarlierResult(gs)

\* C16 along a game: a second round's SNEAKY_TRICKS conclusion, the first
\* auction's result still attached.
C16_WitnessSecondRound ==
    /\ Handled("ConcludePhase")
    /\ msg.phase = SNEAKY_TRICKS
    /\ gs.phase = DA_AUCTION
    /\ gs.market_coupling_result # NoResult

\* C17: a handled message yields at most one ConcludePhase; a re-fed
\* ConcludePhase strictly advances the phase and yields no further
\* ConcludePhase, so the chain of re-fed conclusions of one player event
\* ends after one conclusion.
C17_HandleEventTerminates ==
    [][/\ Len(SelectSeq(out', IsConcludePhase)) <= 1
       /\ Len(pending') <= 1
       /\ err' # "AssertionError"
       /\ msg'.kind = "ConcludePhase" =>
             /\ pending' = <<>>
             /\ SelectSeq(out', IsConcludePhase) = <<>>
             /\ err' = "none" =>
                   (gs'.phase = get_next(gs.phase) /\ gs'.phase # gs.phase)]_vars

\* C17 witness: a player event's chain has ended with a conclusion and the
\* advanced state is the stored one.
C17_Witness ==
    /\ Handled("ConcludePhase")
    /\ pending = <<>>
    /\ repo = gs
    /\ gs.phase = get_next(msg.phase)

\* A message that is not the engine's message to itself
NotInternal(m) == m.kind # "ConcludePhase"

\* C18: during one player event the callback receives every message the
\* engine returned for a player, once and in the order returned, those of the
\* triggering event before those of the re-fed conclusion, and never the
\* ConcludePhase itself.
C18_CallbackDelivery ==
    [][/\ err' = "none" =>
             delivered' = (IF msg'.kind = "ConcludePhase" THEN delivered ELSE <<>>)
                          \o SelectSeq(out', NotInternal)
       /\ \A i \in 1..Len(delivered') : NotInternal(delivered'[i])]_vars

\* C18 witness: the callback has received the two GameUpdates per player of
\* a DA_AUCTION conclusion, in the order the engine returned them.
C18_Witness ==
    /\ Handled("ConcludePhase")
    /\ msg.phase = DA_AUCTION
    /\ Len(delivered) = 2 * NPlayers
    /\ delivered = out
    /\ delivered[1].message = <<"Phase changed to", CONSTRUCTION>>
    /\ delivered[2 * NPlayers].player_id = NPlayers

\* The stored states that handling the two callers' events one after the
\* other, in either order, can leave
SerialOutcomes ==
    LET first(t) == { o \in HandleEventOutcomes(gs, threads[t].event) : o.ok }
        second(t) ==
            UNION { HandleEventOutcomes(o1.state, threads[3 - t].event) : o1 \in first(t) }
    IN { o2.state : o2 \in UNION { second(t) : t \in Threads } }

\* C19 (as claimed): two player events of one game handled at the same time
\* do not interleave their read-handle-write cycles: once both calls have
\* returned, the stored state is one that handling the two events one after
\* the other leaves, so neither update is lost.
C19_EventsSerialized ==
    (\A t \in Threads : threads[t].pc = "done") => repo \in SerialOutcomes

\* C20 (as claimed): a ConcludePhase whose phase is not the state's current
\* phase is refused: the call ends with an error and the state is unchanged.
C20_MismatchedConcludeAborts ==
    [][(msg'.kind = "ConcludePhase" /\ msg'.phase # gs.phase) =>
          (err' # "none" /\ gs' = gs)]_vars

\* The message kinds Engine.handle_message has a handler for
HandledKinds == {"ConcludePhase", "UpdateBidRequest", "BuyAssetRequest", "EndTurn"}

\* C21: handle_message on a message of no handled kind raises
\* NotImplementedError, returns no state and no message, and the game state
\* is as before.
C21_UnknownKindRaises ==
    [][(msg'.kind \notin HandledKinds
        /\ msg'.kind # "update_game_state_with_market_coupling_result") =>
          /\ err' = "NotImplementedError"
          /\ out' = <<>>
          /\ gs' = gs]_vars

\* C21 witness: the DummyMessage of the engine's test was handed to the
\* engine.
C21_Witness ==
    /\ msg.kind = "DummyMessage"
    /\ err = "NotImplementedError"

\* C22 (as claimed): the network handed to the solver has one node per bus,
\* one edge for exactly the active lines and one unit for exactly the active
\* assets, so the dispatch of a DA_AUCTION conclusion covers exactly the
\* active assets and lines.
C22_NetworkOfActiveOnly ==
    [][(msg'.kind = "ConcludePhase" /\ msg'.phase = DA_AUCTION /\ solver' = "ok") =>
          LET network == create_pypsa_network(gs)
          IN /\ network.buses = DOMAIN gs.buses
             /\ network.lines = {l \in DOMAIN gs.transmission : gs.transmission[l].is_active}
             /\ network.generators = {a \in DOMAIN gs.assets : gs.assets[a].is_active}
             /\ DOMAIN gs'.market_coupling_result.assets_dispatch = network.generators
             /\ \A p \in DOMAIN gs.players :
                   ActiveFor(gs.assets, p) \subseteq network.generators]_vars

\* The last call was the named repository operation
RepoOp(name) == ldc.kind = "call" /\ ldc.op[1] = name

\* C23: every repository holds pairwise distinct ids: building one from a
\* list or a frame, adding one entity or merging two repositories fails with
\* an AssertionError whenever an id would appear twice, and no operation
\* returns a repository with a duplicate id
C23_UniqueIds ==
    /\ ldc.kind # "none" => IsUnique(ldc.self.df) /\ IsUnique(ldc.result.repo.df)
    /\ ldc.kind = "new" /\ ldc.op[1] \in {"list", "frame"} /\ ~IsUnique(ldc.op[2])
          => ldc.result.err = "AssertionError" /\ ldc.result.repo = NoRepo
    /\ RepoOp("add") /\ ldc.op[2] \in DcType(ldc.self.class)
                     /\ ldc.op[2].id \in Index(ldc.original.df)
          => ldc.result.err = "AssertionError" /\ ldc.result.repo = NoRepo
    /\ RepoOp("merge") /\ ldc.op[2].class = ldc.self.class
                       /\ Index(ldc.op[2].df) \cap Index(ldc.original.df) # {}
          => ldc.result.err = "AssertionError" /\ ldc.result.repo = NoRepo

\* A repository merged with one that shares an id with it
C23_Witness ==
    /\ RepoOp("merge")
    /\ ldc.op[2].class = ldc.self.class
    /\ Index(ldc.op[2].df) \cap Index(ldc.original.df) # {}
    /\ ldc.result.err = "AssertionError"

\* An entity added under an id the repository did not hold
C23_WitnessAdded ==
    /\ RepoOp("add")
    /\ ldc.result.err = "none"
    /\ Len(ldc.result.repo.df) = Len(ldc.original.df) + 1

\* The calls that return a new repository
CopyingOps ==
    {"filter", "drop_items", "drop_by_ids", "add", "merge", "add_money",
     "delete_for_player", "delete_player"}

\* C24: repositories are copy-on-write: filter, drop_items, drop_by_ids, add,
\* delete-for-player and add_money leave the repository they are called on
\* unchanged, and after any sequence of such calls the original repository
\* still holds exactly its original rows and values
C24_CopyOnWrite ==
    ldc.kind = "call" /\ ldc.op[1] \in CopyingOps => ldc.self = ldc.original

\* add_money returned a repository with other money than the receiver's
C24_Witness ==
    /\ RepoOp("add_money")
    /\ ldc.result.err = "none"
    /\ ldc.result.repo.df # ldc.original.df
    /\ ldc.self = ldc.original

\* A filter returned fewer rows than the receiver holds
C24_WitnessFilter ==
    /\ RepoOp("filter")
    /\ ldc.result.err = "none"
    /\ Len(ldc.result.repo.df) < Len(ldc.original.df)
    /\ ldc.self = ldc.original


\* C25: two repositories of the same kind that hold the same rows are equal
\* whatever the order of their rows, and repositories of different kinds are
\* never equal
C25_EqualityIgnoresOrder ==
    RepoOp("eq") =>
        ldc.value = (/\ ldc.op[2].class = ldc.self.class
                     /\ RowsOf(ldc.op[2].df) = RowsOf(ldc.self.df))

\* Repositories of different kinds are never equal, and repositories that
\* hold their rows in the same order are equal exactly if the rows are equal
C25_EqualityOfKindAndRows ==
    RepoOp("eq") =>
        /\ ldc.op[2].class # ldc.self.class => ldc.value = FALSE
        /\ ldc.value = TRUE => RowsOf(ldc.op[2].df) = RowsOf(ldc.self.df)
        /\ ldc.op[2] = ldc.self => ldc.value = TRUE

\* Two repositories with the same two rows in the opposite order compared
C25_WitnessReordered ==
    /\ RepoOp("eq")
    /\ ldc.op[2].class = ldc.self.class
    /\ RowsOf(ldc.op[2].df) = RowsOf(ldc.self.df)
    /\ ldc.op[2].df # ldc.self.df
    /\ ldc.value = FALSE

\* C26: from_simple_dict(to_simple_dict(r)) succeeds and equals r for every
\* repository r that the repository operations can produce, as the round
\* trip of a game state needs of each of its repositories
C26_RoundTrip ==
    RepoOp("round_trip") =>
        ldc.result.err = "none" /\ Eq(ldc.result.repo, ldc.self)

\* The round trip of a repository that holds at least one row gives an
\* equal repository
C26_RoundTripOfRows ==
    RepoOp("round_trip") /\ Len(ldc.self.df) > 0 =>
        ldc.result.err = "none" /\ Eq(ldc.result.repo, ldc.self)

\* A repository that a call returned without rows is written and read back
C26_WitnessEmpty ==
    /\ RepoOp("round_trip")
    /\ Len(ldc.self.df) = 0
    /\ ldc.result.err = "AssertionError"

\* The buses of a repository's frame that no line ends at
Islanded(df) ==
    {b \in NewGameBusIds : \A i \in 1..Len(df) : df[i].bus1 # b /\ df[i].bus2 # b}

\* The new game create_new_game has to return
GoodNewGame(g) ==
    /\ g.phase = CONSTRUCTION
    /\ g.market_coupling_result = NoResult
    /\ \A p \in DOMAIN g.players :
          g.players[p].money = InitialFunds /\ ~g.players[p].is_having_turn
    /\ \A p \in DOMAIN g.players :
          Cardinality({a \in DOMAIN g.assets :
              g.assets[a].owner_player = p /\ g.assets[a].is_ice_cream}) = 1
    /\ \A b \in DOMAIN g.buses : \E l \in DOMAIN g.transmission :
          g.transmission[l].bus1 = b \/ g.transmission[l].bus2 = b
    /\ \A l \in DOMAIN g.transmission :
          g.transmission[l].bus1 < g.transmission[l].bus2

\* C27: create_new_game returns a state in phase CONSTRUCTION with no market
\* result, every player with the initial funds and no turn and exactly one
\* ice-cream asset, and every bus an endpoint of a line, also when the
\* topology leaves buses islanded and _ensure_no_islanded_buses adds lines,
\* each with a fresh unique id and bus1 < bus2
C27_NewGame ==
    RepoOp("create_new_game") \/ RepoOp("create_default_game") =>
        /\ ldc.result.err = "none"
        /\ GoodNewGame(gs)
        /\ Cardinality(DOMAIN gs.transmission)
              = Len(ldc.original.df) + Cardinality(Islanded(ldc.original.df))

\* Whenever create_new_game returns, it returns such a state, and it returns
\* whenever the topology leaves no bus islanded
C27_NewGameWhenReturned ==
    /\ gs # NoGame => GoodNewGame(gs)
    /\ RepoOp("create_default_game") => gs # NoGame
    /\ RepoOp("create_new_game") /\ Islanded(ldc.original.df) = {} =>
          ldc.result.err = "none" /\ gs # NoGame

\* One bus was islanded and get_random picked that bus itself
C27_WitnessSelfPick ==
    /\ RepoOp("create_new_game")
    /\ \E b \in NewGameBusIds : Islanded(ldc.original.df) = {b} /\ ldc.op[2][b] = b
    /\ ldc.result.err = "AssertionError"
    /\ gs = NoGame

\* Two buses were islanded and each was picked a bus other than itself
C27_WitnessTwoIslanded ==
    /\ RepoOp("create_new_game")
    /\ Cardinality(Islanded(ldc.original.df)) = 2
    /\ \A b \in Islanded(ldc.original.df) : ldc.op[2][b] # b
    /\ ldc.result.err = "AssertionError"
    /\ gs = NoGame

\* One bus was islanded and connected by a line with a fresh id
C27_WitnessConnected ==
    /\ RepoOp("create_new_game")
    /\ Cardinality(Islanded(ldc.original.df)) = 1
    /\ ldc.result.err = "none"
    /\ Len(ldc.result.repo.df) = Len(ldc.original.df) + 1
    /\ GoodNewGame(gs)

\* An EndTurn handled in a state in which no player is having a turn emits
\* the conclusion of that state's phase
EndTurnConcludesAtOnce ==
    msg'.kind = "EndTurn" /\ are_all_players_finished(gs.players) =>
        /\ err' = "none"
        /\ out' = <<ConcludePhase(gs.phase)>>
        /\ gs' = gs

\* C28: in a new game no player is having a turn, so the first EndTurn of
\* any single player emits ConcludePhase(CONSTRUCTION) at once, and each of
\* several EndTurn messages sent in that state emits its own ConcludePhase
C28_FirstEndTurnConcludes ==
    /\ \A g \in create_new_game :
          g.phase = CONSTRUCTION /\ are_all_players_finished(g.players)
    /\ [][EndTurnConcludesAtOnce]_vars

\* An EndTurn handled in a new game
C28_Witness ==
    /\ msg.kind = "EndTurn"
    /\ gs \in create_new_game
    /\ out = <<ConcludePhase(CONSTRUCTION)>>

\* From a new game the GameManager concludes CONSTRUCTION on the first
\* EndTurn, whoever sends it
ManagerConcludesOnFirstEndTurn ==
    repo \in create_new_game /\ pending = <<>> /\ msg'.kind = "EndTurn"
        => Len(pending') = 1 /\ pending'[1] = ConcludePhase(CONSTRUCTION)

C28_ManagerConcludesOnFirstEndTurn == [][ManagerConcludesOnFirstEndTurn]_vars

UnknownPlayer(m) == m.player_id \notin DOMAIN gs.players

\* What a request from an unknown player, or for an unknown asset, ends in
UnknownPlayerStep ==
    /\ msg'.kind = "BuyAssetRequest" /\ UnknownPlayer(msg')
          => err' = "KeyError" /\ out' = <<>> /\ gs' = gs
    /\ msg'.kind = "UpdateBidRequest" /\ UnknownPlayer(msg')
                                      /\ msg'.asset_id \in DOMAIN gs.assets
          => err' = "KeyError" /\ out' = <<>> /\ gs' = gs
    /\ msg'.kind = "UpdateBidRequest" /\ msg'.asset_id \notin DOMAIN gs.assets
          => /\ err' = "none"
             /\ gs' = gs
             /\ Len(out') = 1
             /\ out'[1] = UpdateBidResponse(msg'.player_id, gs, FALSE,
                                            "Asset does not exist.", msg'.asset_id)

\* C29: a BuyAssetRequest for any asset id, or an UpdateBidRequest for an
\* existing asset, from a player id that the player repository does not hold
\* ends in a KeyError with no state and no message returned; an
\* UpdateBidRequest for an unknown asset is answered with a failure response
\* before the player is looked up
C29_UnknownPlayerRaises == [][UnknownPlayerStep]_vars

\* An unknown player asked to buy an asset that does not exist
C29_Witness ==
    /\ msg.kind = "BuyAssetRequest"
    /\ UnknownPlayer(msg)
    /\ msg.asset_id = UnknownAssetId
    /\ err = "KeyError"

\* An unknown player bid on an existing asset
C29_WitnessBid ==
    /\ msg.kind = "UpdateBidRequest"
    /\ UnknownPlayer(msg)
    /\ msg.asset_id \in DOMAIN gs.assets
    /\ err = "KeyError"

\* An unknown player bid on an asset that does not exist
C29_WitnessUnknownAsset ==
    /\ msg.kind = "UpdateBidRequest"
    /\ UnknownPlayer(msg)
    /\ msg.asset_id = UnknownAssetId
    /\ err = "none"
    /\ Len(out) = 1 /\ ~out[1].success

\* The stored state is written at the end of an event and at no other time
WrittenOnceAtTheEnd ==
    /\ err' # "none" => repo' = repo
    /\ pending' # <<>> => repo' = repo
    /\ err' = "none" /\ pending' = <<>> => repo' = gs'
    /\ pending # <<>> /\ err' # "none" => gs' = repo

\* C30: handle_player_event writes the game state once, after the event and
\* every re-fed phase conclusion have been handled; if the engine raises at
\* any stage update_game is not called and the stored state stays as it was
\* before the event, so an EndTurn whose phase conclusion fails is not
\* persisted
C30_WrittenOnceAtTheEnd == [][WrittenOnceAtTheEnd]_vars

\* The conclusion re-fed after a player's last EndTurn raised, and the
\* stored state still has a player having a turn
C30_Witness ==
    /\ msg.kind = "ConcludePhase"
    /\ err # "none"
    /\ \E p \in DOMAIN repo.players : repo.players[p].is_having_turn
    /\ gs = repo

\* An EndTurn was handled and its conclusion is yet to be re-fed: the stored
\* state is not the state the engine returned
C30_WitnessBetweenStages ==
    /\ msg.kind = "EndTurn"
    /\ pending # <<>>
    /\ repo # gs

\* The engine raised at the first stage, on the request of an unknown player
C30_WitnessFirstStage ==
    /\ msg.kind = "BuyAssetRequest"
    /\ err = "KeyError"
    /\ gs = repo

====
